---- MODULE Spec2Model ----
(***************************************************************************)
(* finmetry.client_5paisa.base: ScripMaster (the symbol table) and         *)
(* Client5paisa (the session client).  Every call is synchronous, so each  *)
(* handler is one action; the requests it issues and the saves it makes    *)
(* are recorded, in program order, in the log of the call record.          *)
(***************************************************************************)
EXTENDS Integers, Sequences, FiniteSets, TLC

VARIABLES
    data,     \* ScripMaster.data: the loaded table, a sequence of rows
    stocks,   \* per Stock object: the cached scrip and option_chain attributes
    files,    \* the historical tables on disk: the set of <<interval, symbol>>
    client,   \* the Client5paisa object: session, ws_feed, scrip_master
    pc,       \* "idle", or "blocked" once a call hangs in ws_feed.recv()
    call      \* the last call: operation, arguments, outcome and its log

vars == <<data, stocks, files, client, pc, call>>

(* ---------------------------------------------------------------- bounds *)
\* longest stocklist passed to an operation
MaxList == 2

(* ------------------------------------------------------- the CSV sources *)
\* str.upper on the names that occur in the reference files
Upper(s) ==
    CASE s = "Reliance" -> "RELIANCE"
      [] s = "reliance" -> "RELIANCE"
      [] s = "tcs"      -> "TCS"
      [] s = "Tcs"      -> "TCS"
      [] OTHER          -> s

Row(e, t, n, sy, se, c) ==
    [Exch |-> e, ExchType |-> t, Name |-> n, Symbol |-> sy, Series |-> se, Scripcode |-> c]

\* exchange N lists each symbol once in the cash series, among rows that
\* must not match
CsvA ==
    << Row("N", "C", "Reliance", "RELIANCE-EQ", "EQ", 2885),
       Row("B", "C", "RELIANCE", "RELIANCE",    "EQ", 500325),
       Row("N", "C", "RELIANCE", "RELIANCE",    "BE", 2886),
       Row("N", "C", "tcs",      "TCS",         "EQ", 11536),
       Row("N", "D", "TCS",      "TCS",         "XX", 57001) >>

\* RELIANCE listed under both cash series, TCS listed on exchange B only
CsvB ==
    << Row("N", "C", "RELIANCE", "RELIANCE", "EQ", 2885),
       Row("B", "C", "TCS",      "TCS",      "EQ", 532540),
       Row("N", "C", "reliance", "RELIANCE", "XX", 2999) >>

\* a row whose Symbol column says TCS under another Name: the load overwrites it
CsvC ==
    << Row("B", "C", "tcs",      "TCS",      "EQ", 532540),
       Row("N", "C", "TATA",     "TCS",      "EQ", 11536),
       Row("N", "C", "RELIANCE", "RELIANCE", "EQ", 2885) >>

\* TCS listed twice in the cash series, RELIANCE only in series BE
CsvD ==
    << Row("N", "C", "TCS",      "TCS",      "EQ", 11536),
       Row("N", "C", "RELIANCE", "RELIANCE", "BE", 2886),
       Row("N", "C", "Tcs",      "TCS",      "EQ", 11537) >>

CsvFiles == {CsvA, CsvB, CsvC, CsvD}

\* ScripMaster.__init__: Name upper-cased, Symbol overwritten by Name
LoadRow(r) == [r EXCEPT !.Name = Upper(r.Name), !.Symbol = Upper(r.Name)]

ScripMasterInit(csv) == [i \in 1..Len(csv) |-> LoadRow(csv[i])]

(* ------------------------------------------------------------ the stocks *)
StockIds == {"s1", "s2"}

\* the identity of a Stock: (symbol, exchange, exchange_type)
StockRef(s) ==
    IF s = "s1" THEN [symbol |-> "RELIANCE", exchange |-> "N", exchange_type |-> "C"]
                ELSE [symbol |-> "TCS",      exchange |-> "N", exchange_type |-> "C"]

\* an attribute that has not been set on the Stock object yet
NoScrip == <<>>
NoChain == "unset"

RECURSIVE ListsOfLen(_)
ListsOfLen(n) ==
    IF n = 0 THEN {<<>>}
    ELSE {Append(l, s) : l \in ListsOfLen(n - 1), s \in StockIds}

StockLists == UNION {ListsOfLen(n) : n \in 0..MaxList}

(* ------------------------------------------------- ScripMaster.get_scrip *)
\* f1: the row is the stock's (exchange, exchange_type, symbol)
MatchesStock(r, ref) ==
    /\ r.Exch = ref.exchange
    /\ r.ExchType = ref.exchange_type
    /\ r.Symbol = ref.symbol

CashSeries_onlyEQ(r) == r.Series = "EQ"

\* f2: the cash-equivalent series
CashSeries(r) == r.Series = "EQ" \/ r.Series = "XX"

\* d2 = d1[f1 & f2]
Lookup(d1, ref) == SelectSeq(d1, LAMBDA r : MatchesStock(r, ref) /\ CashSeries(r))

RECURSIVE Concat(_)
Concat(ls) == IF ls = <<>> THEN <<>> ELSE Head(ls) \o Concat(Tail(ls))

Raised(exc, sym, st) ==
    [raised |-> TRUE, exc |-> exc, sym |-> sym, rows |-> <<>>, st |-> st]

Returned(rows, st) ==
    [raised |-> FALSE, exc |-> "", sym |-> "", rows |-> rows, st |-> st]

RECURSIVE get_scrip_loop(_, _, _, _)
get_scrip_loop(d1, stocklist, st, ls1) ==
    IF stocklist = <<>>
    THEN \* pd.concat of an empty list raises ValueError("No objects to concatenate")
         IF ls1 = <<>> THEN Raised("ValueError", "", st)
                       ELSE Returned(Concat(ls1), st)
    ELSE LET s1 == Head(stocklist) IN
         IF st[s1].scrip # NoScrip
         THEN get_scrip_loop(d1, Tail(stocklist), st, Append(ls1, st[s1].scrip))
         ELSE LET d2 == Lookup(d1, StockRef(s1)) IN
              IF d2 = <<>>
              THEN Raised("ValueError", StockRef(s1).symbol, st)
              ELSE get_scrip_loop(d1, Tail(stocklist),
                                  [st EXCEPT ![s1].scrip = d2], Append(ls1, d2))

\* a variant that drops the caches of a batch that fails
get_scrip_atomic(d1, stocklist, st) ==
    LET r == get_scrip_loop(d1, stocklist, st, <<>>) IN
    IF r.raised THEN [r EXCEPT !.st = st] ELSE r

get_scrip(d1, stocklist, st) == get_scrip_loop(d1, stocklist, st, <<>>)

(* ------------------------------------------------------- the call record *)
\* a request, a connection step or a save, in the order the call makes them
Ev(e, sym) == [ev |-> e, sym |-> sym, code |-> <<>>]

\* the GET of historical_data for an instrument, with the ScripCode in its url
Get(sym, ScripCode) == [ev |-> "http_get", sym |-> sym, code |-> ScripCode]

NoCall ==
    [op |-> "", list |-> <<>>, arg |-> "", outcome |-> "none", exc |-> "", sym |-> "",
     rows |-> <<>>, value |-> "", log |-> <<>>]

CallRec(op, list, arg, outcome, exc, sym, rows, value, log) ==
    [op |-> op, list |-> list, arg |-> arg, outcome |-> outcome, exc |-> exc,
     sym |-> sym, rows |-> rows, value |-> value, log |-> log]

NoClient ==
    [init |-> "none", session |-> FALSE, ws_feed |-> "unset", scrip_master |-> "unset"]

Init ==
    /\ data \in {ScripMasterInit(csv) : csv \in CsvFiles}
    /\ stocks = [s \in StockIds |-> [scrip |-> NoScrip, option_chain |-> NoChain]]
    /\ files = {}
    /\ client = NoClient
    /\ pc = "idle"
    /\ call = NoCall

\* scrip_master.get_scrip(stocklist), called on the symbol table directly
GetScrip(stocklist) ==
    /\ pc = "idle"
    /\ LET r == get_scrip(data, stocklist, stocks) IN
       /\ stocks' = r.st
       /\ call' = CallRec("get_scrip", stocklist, "",
                          IF r.raised THEN "raised" ELSE "returned",
                          r.exc, r.sym, r.rows, "", <<>>)
    /\ UNCHANGED <<data, files, client, pc>>

(* -------------------------------------------------- Client5paisa.__init__ *)
\* the token branch never assigns ws_feed; only the direct branch connects
ClientInit(login_using_token, sm, loginOk, connOk) ==
    IF login_using_token
    THEN IF loginOk   \* get_access_token(token)
         THEN [init |-> "done", session |-> TRUE,
               ws_feed |-> "unset", scrip_master |-> sm]
         ELSE [NoClient EXCEPT !.init = "failed"]
    ELSE IF ~loginOk  \* login()
         THEN [NoClient EXCEPT !.init = "failed"]
         ELSE IF ~connOk   \* _create_connection(self._web_url1)
              THEN [NoClient EXCEPT !.init = "failed", !.session = TRUE]
              ELSE [init |-> "done", session |-> TRUE,
                    ws_feed |-> "open", scrip_master |-> sm]

Construct(login_using_token, sm, loginOk, connOk) ==
    /\ pc = "idle"
    /\ client' = ClientInit(login_using_token, sm, loginOk, connOk)
    /\ call' = CallRec("__init__", <<>>,
                       IF login_using_token THEN "token" ELSE "direct",
                       IF client'.init = "done" THEN "returned" ELSE "raised",
                       IF client'.init = "done" THEN "" ELSE "LoginError",
                       "", <<>>, "", <<>>)
    /\ UNCHANGED <<data, stocks, files, pc>>

(* ------------------------------------------ Client5paisa.historical_data *)
timeList_no10m == {"1m", "5m", "15m", "30m", "60m", "1d"}

timeList == {"1m", "5m", "10m", "15m", "30m", "60m", "1d"}

Sentinel == "Invalid Time Frame. it should be within [1m,5m,10m,15m,30m,60m,1d]."

\* time strings a caller passes: the allowed ones and some that are not
TimeInputs == {"1m", "5m", "10m", "15m", "30m", "60m", "1d", "2h", "1D", ""}

\* a variant with the membership test inverted
historical_data_inverted(sym, ScripCode, time, respOk) ==
    IF time \in timeList
    THEN [raised |-> FALSE, exc |-> "", value |-> Sentinel, log |-> <<>>]
    ELSE [raised |-> FALSE, exc |-> "", value |-> "df",
          log |-> <<Get(sym, ScripCode)>>]

\* one session.get on the url built from the instrument and its ScripCode;
\* respOk: the response carries data.candles with six columns
historical_data(sym, ScripCode, time, respOk) ==
    IF time \notin timeList
    THEN [raised |-> FALSE, exc |-> "", value |-> Sentinel, log |-> <<>>]
    ELSE IF respOk
         THEN [raised |-> FALSE, exc |-> "", value |-> "df",
               log |-> <<Get(sym, ScripCode)>>]
         ELSE [raised |-> TRUE, exc |-> "KeyError", value |-> "",
               log |-> <<Get(sym, ScripCode)>>]

HistoricalData(time, respOk) ==
    /\ pc = "idle"
    /\ client.init = "done"
    /\ LET h == historical_data("", <<>>, time, respOk) IN
       call' = CallRec("historical_data", <<>>, time,
                       IF h.raised THEN "raised" ELSE "returned",
                       h.exc, "", <<>>, h.value, h.log)
    /\ UNCHANGED <<data, stocks, files, client, pc>>

(* --------------------------------- Client5paisa.download_historical_data *)
\* intervals a caller passes to download_historical_data
IntervalInputs == {"1d", "2h"}

\* Stock.save_historical_data(table, interval): the table is written to
\* <root>/<interval>/<symbol>.csv.  What it does with the sentinel string is
\* not fixed by anything in the repository: strSave says whether it writes it.
save_historical_data(fs, sym, value, interval, strSave) ==
    IF value = Sentinel /\ ~strSave
    THEN [raised |-> TRUE, files |-> fs]
    ELSE [raised |-> FALSE, files |-> fs \cup {<<interval, sym>>}]

\* scrip.loc[symbol, "Scripcode"]: the codes of the rows indexed by the symbol
\* (one value when the symbol indexes one row, a column of values otherwise)
ScripcodeAt(scrip, sym) ==
    LET hit == SelectSeq(scrip, LAMBDA r : r.Name = sym)
    IN  [i \in DOMAIN hit |-> hit[i].Scripcode]

\* a variant of the loop body that fetches the table and never writes it
download_step_nosave(s1, scrip, interval, respOk, strSave, fs) ==
    LET sym == StockRef(s1).symbol
        h   == historical_data(sym, ScripcodeAt(scrip, sym), interval, respOk)
    IN  [raised |-> h.raised, exc |-> h.exc, files |-> fs, log |-> h.log]

\* the loop body: s1.save_historical_data(self.historical_data(...), interval)
download_step(s1, scrip, interval, respOk, strSave, fs) ==
    LET sym == StockRef(s1).symbol
        h   == historical_data(sym, ScripcodeAt(scrip, sym), interval, respOk)
    IN  IF h.raised
        THEN [raised |-> TRUE, exc |-> h.exc, files |-> fs, log |-> h.log]
        ELSE LET w == save_historical_data(fs, sym, h.value, interval, strSave) IN
             IF w.raised
             THEN [raised |-> TRUE, exc |-> "AttributeError", files |-> fs, log |-> h.log]
             ELSE [raised |-> FALSE, exc |-> "", files |-> w.files,
                   log |-> h.log \o <<Ev("save", sym)>>]

\* for s1 in stocklist: ...; the first failing step aborts the loop
\* failAt: the position whose response is bad (0: none)
RECURSIVE download_loop(_, _, _, _, _, _, _, _)
download_loop(stocklist, scrip, i, interval, failAt, strSave, fs, log) ==
    IF i > Len(stocklist)
    THEN [raised |-> FALSE, exc |-> "", files |-> fs, log |-> log]
    ELSE LET d == download_step(stocklist[i], scrip, interval, i # failAt, strSave, fs) IN
         IF d.raised
         THEN [raised |-> TRUE, exc |-> d.exc, files |-> d.files, log |-> log \o d.log]
         ELSE download_loop(stocklist, scrip, i + 1, interval, failAt, strSave,
                            d.files, log \o d.log)

\* __check_scrip_master
check_scrip_master(c) == IF c.scrip_master = "None" THEN "TypeError" ELSE ""

\* self.scrip_master.get_scrip(...) with no check before it
unchecked_scrip_master(c) == IF c.scrip_master = "None" THEN "AttributeError" ELSE ""

DownloadHistoricalData(stocklist, interval, failAt, strSave) ==
    /\ pc = "idle"
    /\ client.init = "done"
    /\ IF check_scrip_master(client) # ""
       THEN /\ call' = CallRec("download_historical_data", stocklist, interval, "raised",
                               check_scrip_master(client), "", <<>>, "", <<>>)
            /\ UNCHANGED <<stocks, files>>
       ELSE LET r == get_scrip(data, stocklist, stocks) IN
            IF r.raised
            THEN /\ stocks' = r.st
                 /\ call' = CallRec("download_historical_data", stocklist, interval,
                                    "raised", r.exc, r.sym, <<>>, "", <<Ev("get_scrip", "")>>)
                 /\ UNCHANGED files
            ELSE LET d == download_loop(stocklist, r.rows, 1, interval, failAt, strSave,
                                        files, <<Ev("get_scrip", "")>>) IN
                 /\ stocks' = r.st
                 /\ files' = d.files
                 /\ call' = CallRec("download_historical_data", stocklist, interval,
                                    IF d.raised THEN "raised" ELSE "returned",
                                    d.exc, "", <<>>, IF d.raised THEN "" ELSE "None", d.log)
    /\ UNCHANGED <<data, client, pc>>

(* ------------------------- Client5paisa.get_market_depth / get_market_feed *)
\* one batched broker request for the rows of a; reqOk: it answers with Data
BatchCall(op, req, stocklist, reqOk) ==
    /\ pc = "idle"
    /\ client.init = "done"
    /\ IF unchecked_scrip_master(client) # ""
       THEN /\ call' = CallRec(op, stocklist, "", "raised",
                               unchecked_scrip_master(client), "", <<>>, "", <<>>)
            /\ UNCHANGED stocks
       ELSE LET r == get_scrip(data, stocklist, stocks) IN
            /\ stocks' = r.st
            /\ call' = IF r.raised
                       THEN CallRec(op, stocklist, "", "raised", r.exc, r.sym, <<>>, "",
                                    <<Ev("get_scrip", "")>>)
                       ELSE CallRec(op, stocklist, "",
                                    IF reqOk THEN "returned" ELSE "raised",
                                    IF reqOk THEN "" ELSE "KeyError", "", r.rows,
                                    IF reqOk THEN "df" ELSE "",
                                    <<Ev("get_scrip", ""), Ev(req, "")>>)
    /\ UNCHANGED <<data, files, client, pc>>

GetMarketDepth(stocklist, reqOk) ==
    BatchCall("get_market_depth", "fetch_market_depth_by_symbol", stocklist, reqOk)

GetMarketFeed(stocklist, reqOk) ==
    BatchCall("get_market_feed", "fetch_market_feed", stocklist, reqOk)

(* ------------------------------------------ Client5paisa.get_market_data *)
FeedTypes == {"md", "mf", "other"}

\* a variant without the loop of the "mf" feed
recv_count_md_only(feed_type, n) == IF feed_type = "md" THEN n ELSE 0

\* the two loops over mf_list["MarketFeedData"]: one recv per entry
recv_count(feed_type, n) ==
    IF feed_type = "md" THEN n
    ELSE IF feed_type = "mf" THEN n
    ELSE 0

RecvEvents(k) == [i \in 1..k |-> Ev("ws_recv", "")]

\* create_connection, send, the recv loop, close, json.loads.  avail: the
\* messages the server ever delivers on this connection; recv blocks when none
\* is left.  jsonOk: the received fragments concatenate to a JSON array.
feed_session(feed_type, n, avail, jsonOk) ==
    LET want == recv_count(feed_type, n)
        head == <<Ev("get_scrip", ""), Ev("ws_open", ""), Ev("ws_send", "")>>
    IN  IF avail < want
        THEN [outcome |-> "blocked", ws_feed |-> "open",
              log |-> head \o RecvEvents(avail)]
        ELSE [outcome |-> IF want = 0 \/ jsonOk THEN "returned" ELSE "raised",
              ws_feed |-> "closed",
              log |-> (head \o RecvEvents(want)) \o <<Ev("ws_close", "")>>]

GetMarketData(stocklist, feed_type, connOk) ==
    /\ pc = "idle"
    /\ client.init = "done"
    /\ IF unchecked_scrip_master(client) # ""
       THEN /\ call' = CallRec("get_market_data", stocklist, feed_type, "raised",
                               unchecked_scrip_master(client), "", <<>>, "", <<>>)
            /\ UNCHANGED <<stocks, client, pc>>
       ELSE LET r == get_scrip(data, stocklist, stocks) IN
            /\ stocks' = r.st
            /\ IF r.raised
               THEN /\ call' = CallRec("get_market_data", stocklist, feed_type, "raised",
                                       r.exc, r.sym, <<>>, "", <<Ev("get_scrip", "")>>)
                    /\ UNCHANGED <<client, pc>>
               ELSE IF ~connOk
               THEN /\ call' = CallRec("get_market_data", stocklist, feed_type, "raised",
                                       "ConnectionError", "", r.rows, "",
                                       <<Ev("get_scrip", "")>>)
                    /\ UNCHANGED <<client, pc>>
               ELSE \E avail \in 0..(Len(r.rows) + 1), jsonOk \in BOOLEAN :
                       LET f == feed_session(feed_type, Len(r.rows), avail, jsonOk) IN
                       /\ client' = [client EXCEPT !.ws_feed = f.ws_feed]
                       /\ pc' = IF f.outcome = "blocked" THEN "blocked" ELSE "idle"
                       /\ call' = CallRec("get_market_data", stocklist, feed_type,
                                          f.outcome,
                                          IF f.outcome = "raised" THEN "JSONDecodeError" ELSE "",
                                          "", r.rows,
                                          IF f.outcome = "returned" THEN "df" ELSE "",
                                          f.log)
    /\ UNCHANGED <<data, files>>

(* ----------------------------------------- Client5paisa.get_option_chain *)
\* the dates of the expiry list the broker publishes for NIFTY
ExpiryDays == {"2023-04-27"}

Date(kind, day) == [kind |-> kind, day |-> day]

\* expiry_date as the caller gives it: a string, a date or a datetime
ExpiryInputs ==
    {Date("str", "2023-04-27"), Date("str", "2023-05-01"),
     Date("date", "2023-04-27"), Date("datetime", "2023-04-27")}

\* strptime(expiry_date, "%Y-%m-%d").date() for a string, else the object itself
ParseExpiry(e) == IF e.kind = "str" THEN Date("date", e.day) ELSE e

\* d1["Date"] == expiry_date: a date never equals a datetime
ExpiryListed(e) == e.kind = "date" /\ e.day \in ExpiryDays

ChainPayloads == {"oc1", "oc2"}

\* a variant that answers from the cache whenever there is one
cache_hit_ignores_update(update, st, s) == st[s].option_chain # NoChain

\* TRUE when the call answers from stock.option_chain
cache_hit(update, st, s) == ~update /\ st[s].option_chain # NoChain

\* the value the fetching branch leaves on stock.option_chain
store_chain(st, s, d2) == [st EXCEPT ![s].option_chain = d2]

BoolStr(b) == IF b THEN "True" ELSE "False"

\* expOk, chainOk: the broker answers the expiry / option-chain request
GetOptionChain(s, expiry_date, update, expOk, chainOk, d2) ==
    /\ pc = "idle"
    /\ client.init = "done"
    /\ IF cache_hit(update, stocks, s)
       THEN /\ call' = CallRec("get_option_chain", <<s>>, BoolStr(update), "returned",
                               "", "", <<>>, stocks[s].option_chain, <<>>)
            /\ UNCHANGED stocks
       ELSE IF ~expOk
       THEN /\ call' = CallRec("get_option_chain", <<s>>, BoolStr(update), "raised",
                               "KeyError", "", <<>>, "", <<Ev("get_expiry", "")>>)
            /\ UNCHANGED stocks
       ELSE IF ~ExpiryListed(ParseExpiry(expiry_date))
       THEN /\ call' = CallRec("get_option_chain", <<s>>, BoolStr(update), "raised",
                               "IndexError", "", <<>>, "", <<Ev("get_expiry", "")>>)
            /\ UNCHANGED stocks
       ELSE IF ~chainOk
       THEN /\ call' = CallRec("get_option_chain", <<s>>, BoolStr(update), "raised",
                               "KeyError", "", <<>>, "",
                               <<Ev("get_expiry", ""), Ev("get_option_chain", "")>>)
            /\ UNCHANGED stocks
       ELSE /\ stocks' = store_chain(stocks, s, d2)
            /\ call' = CallRec("get_option_chain", <<s>>, BoolStr(update), "returned",
                               "", "", <<>>, d2,
                               <<Ev("get_expiry", ""), Ev("get_option_chain", "")>>)
    /\ UNCHANGED <<data, files, client, pc>>

(* ------------------------------------------------------ the specifications *)
(* Spec runs every operation.  The other specifications run the operations  *)
(* of one use of the module each, leaving the rest of the state as Init     *)
(* made it, which keeps each of them small enough to explore in full.       *)
AnyConstruct ==
    \E m \in BOOLEAN, sm \in {"None", "SM"}, lo \in BOOLEAN, co \in BOOLEAN :
       Construct(m, sm, lo, co)

AnyGetScrip == \E l \in StockLists : GetScrip(l)

AnyHistoricalData == \E t \in TimeInputs, ok \in BOOLEAN : HistoricalData(t, ok)

AnyDownload ==
    \E l \in StockLists, iv \in IntervalInputs :
       \E k \in (IF iv \in timeList THEN 0..Len(l) ELSE {0}),
          w \in (IF iv \in timeList THEN {TRUE} ELSE BOOLEAN) :
          DownloadHistoricalData(l, iv, k, w)

AnyMarketDepth == \E l \in StockLists, ok \in BOOLEAN : GetMarketDepth(l, ok)

AnyMarketFeed == \E l \in StockLists, ok \in BOOLEAN : GetMarketFeed(l, ok)

AnyMarketData ==
    \E l \in StockLists, ft \in FeedTypes, co \in BOOLEAN : GetMarketData(l, ft, co)

AnyOptionChain ==
    \E s \in StockIds, e \in ExpiryInputs, u \in BOOLEAN, eo \in BOOLEAN,
       co \in BOOLEAN, d2 \in ChainPayloads : GetOptionChain(s, e, u, eo, co, d2)

\* every operation of the module
Next ==
    \/ AnyGetScrip
    \/ AnyConstruct
    \/ AnyHistoricalData
    \/ AnyDownload
    \/ AnyMarketDepth
    \/ AnyMarketFeed
    \/ AnyMarketData
    \/ AnyOptionChain

Spec == Init /\ [][Next]_vars

\* a client pulling historical data
NextHistorical ==
    \/ AnyConstruct
    \/ AnyHistoricalData
    \/ AnyDownload

SpecHistorical == Init /\ [][NextHistorical]_vars

\* the symbol table used directly and by a client reading the market
NextMarket ==
    \/ AnyGetScrip
    \/ AnyConstruct
    \/ AnyMarketDepth
    \/ AnyMarketFeed
    \/ AnyMarketData

SpecMarket == Init /\ [][NextMarket]_vars

\* a client querying option chains
NextOption ==
    \/ AnyConstruct
    \/ AnyOptionChain

SpecOption == Init /\ [][NextOption]_vars

\* a client built with a symbol table, issuing the operations that send requests
NextRequests ==
    \/ \E m \in BOOLEAN : Construct(m, "SM", TRUE, TRUE)
    \/ \E l \in StockLists : \E k \in 0..Len(l) : DownloadHistoricalData(l, "1d", k, TRUE)
    \/ AnyMarketDepth
    \/ AnyMarketFeed
    \/ \E e \in ExpiryInputs, u \in BOOLEAN, eo \in BOOLEAN, co \in BOOLEAN :
          GetOptionChain("s1", e, u, eo, co, "oc1")

SpecRequests == Init /\ [][NextRequests]_vars

\* a client built with or without a symbol table, resolving instrument codes
NextLookup ==
    \/ \E m \in BOOLEAN, sm \in {"None", "SM"} : Construct(m, sm, TRUE, TRUE)
    \/ AnyDownload
    \/ AnyMarketDepth
    \/ AnyMarketFeed
    \/ AnyMarketData

SpecLookup == Init /\ [][NextLookup]_vars

(* ------------------------------------------------------------ properties *)
Symbols(list) == [i \in DOMAIN list |-> StockRef(list[i]).symbol]

Prefix(seq, k) == [i \in 1..k |-> seq[i]]

Events(log, e) == SelectSeq(log, LAMBDA x : x.ev = e)

EventSyms(log, e) == [i \in DOMAIN Events(log, e) |-> Events(log, e)[i].sym]

\* r is a row of stock s in series EQ or XX
CashRowOf(r, s) ==
    /\ r.Exch = StockRef(s).exchange
    /\ r.ExchType = StockRef(s).exchange_type
    /\ r.Symbol = StockRef(s).symbol
    /\ r.Series \in {"EQ", "XX"}

SameInstrument(r, s) ==
    /\ r.Exch = StockRef(s).exchange
    /\ r.ExchType = StockRef(s).exchange_type
    /\ r.Symbol = StockRef(s).symbol

\* the rows can be cut into consecutive blocks, one per position of the list
InListOrder(rows, list) ==
    \E f \in [DOMAIN rows -> DOMAIN list] :
        /\ \A p \in DOMAIN rows : SameInstrument(rows[p], list[f[p]])
        /\ \A p, q \in DOMAIN rows : p < q => f[p] <= f[q]

\* stock s had no cached scrip in st and the table has no EQ/XX row for it
Unresolvable(s, st) ==
    /\ st[s].scrip = NoScrip
    /\ \A j \in DOMAIN data : ~CashRowOf(data[j], s)

\* C1: a get_scrip call that returns gives, for every stock of the list that
\* had no cached scrip, the Scripcode of each of its EQ/XX rows under the
\* stock's symbol; every returned row is the row of a requested stock; and the
\* rows follow the order of the list.
C1_ResolvedRows ==
    [][ (call'.op = "get_scrip" /\ call'.outcome = "returned") =>
          /\ \A i \in DOMAIN call'.list :
                stocks[call'.list[i]].scrip = NoScrip =>
                   \A j \in DOMAIN data :
                      CashRowOf(data[j], call'.list[i]) =>
                         \E p \in DOMAIN call'.rows :
                            /\ call'.rows[p].Name = StockRef(call'.list[i]).symbol
                            /\ call'.rows[p].Scripcode = data[j].Scripcode
          /\ \A p \in DOMAIN call'.rows :
                \E i \in DOMAIN call'.list : SameInstrument(call'.rows[p], call'.list[i])
          /\ InListOrder(call'.rows, call'.list) ]_vars

\* two different stocks resolved by one call, the second listed stock first
C1_Witness ==
    /\ call.op = "get_scrip"
    /\ call.outcome = "returned"
    /\ call.list = <<"s2", "s1">>
    /\ Len(call.rows) = 2
    /\ call.rows[1].Scripcode = 11536
    /\ call.rows[2].Scripcode = 2885

\* C2 as stated: a get_scrip call on a list with an unresolvable stock raises
\* a ValueError naming such a stock, returns no table, and leaves no stock of
\* the list with a scrip it did not have before the call.
C2_NoPartialSuccess ==
    [][ (call'.op = "get_scrip"
           /\ \E i \in DOMAIN call'.list : Unresolvable(call'.list[i], stocks)) =>
          /\ call'.outcome = "raised"
          /\ call'.exc = "ValueError"
          /\ \E i \in DOMAIN call'.list :
                /\ Unresolvable(call'.list[i], stocks)
                /\ call'.sym = StockRef(call'.list[i]).symbol
          /\ call'.rows = <<>>
          /\ \A i \in DOMAIN call'.list :
                stocks[call'.list[i]].scrip = NoScrip =>
                   stocks'[call'.list[i]].scrip = NoScrip ]_vars

\* the position of the first unresolvable stock of the list
FirstUnresolvable(list, st) ==
    CHOOSE k \in DOMAIN list :
        /\ Unresolvable(list[k], st)
        /\ \A i \in 1..(k - 1) : ~Unresolvable(list[i], st)

\* C2 amended: the call raises a ValueError naming the first unresolvable
\* stock and returns no table; the stocks listed before it are left with a
\* cached scrip made of their EQ/XX rows, and every other stock is untouched.
C2_AbortsAtFirstUnresolved ==
    [][ (call'.op = "get_scrip"
           /\ \E i \in DOMAIN call'.list : Unresolvable(call'.list[i], stocks)) =>
          LET k == FirstUnresolvable(call'.list, stocks)
              before == {call'.list[i] : i \in 1..(k - 1)}
          IN  /\ call'.outcome = "raised"
              /\ call'.exc = "ValueError"
              /\ call'.sym = StockRef(call'.list[k]).symbol
              /\ call'.rows = <<>>
              /\ \A s \in before :
                    /\ stocks'[s].scrip # NoScrip
                    /\ \A p \in DOMAIN stocks'[s].scrip : CashRowOf(stocks'[s].scrip[p], s)
              /\ \A s \in StockIds \ before : stocks'[s] = stocks[s] ]_vars

\* a failed batch whose first stock is left resolved
C2_Witness ==
    /\ call.op = "get_scrip"
    /\ call.outcome = "raised"
    /\ call.exc = "ValueError"
    /\ call.list = <<"s1", "s2">>
    /\ call.sym = "TCS"
    /\ stocks["s1"].scrip # NoScrip
    /\ stocks["s2"].scrip = NoScrip

\* C3: a stock's cached scrip never has more than one row, and a get_scrip
\* call that returns gives one row per listed stock.
C3_ExactlyOneRow ==
    /\ \A s \in StockIds : Len(stocks[s].scrip) <= 1
    /\ (call.op = "get_scrip" /\ call.outcome = "returned") =>
          Len(call.rows) = Len(call.list)

\* C4: historical_data with a time outside {1m,5m,10m,15m,30m,60m,1d} returns
\* the sentinel string without raising and without an HTTP request; with a
\* time inside the set it issues exactly one HTTP GET.
C4_TimeFrameCheck ==
    call.op = "historical_data" =>
       IF call.arg \in {"1m", "5m", "10m", "15m", "30m", "60m", "1d"}
       THEN Len(Events(call.log, "http_get")) = 1 /\ Len(call.log) = 1
       ELSE /\ call.outcome = "returned"
            /\ call.value = Sentinel
            /\ call.log = <<>>

\* an invalid time frame answered by the sentinel
C4_Witness ==
    /\ call.op = "historical_data"
    /\ call.arg = "2h"
    /\ call.outcome = "returned"
    /\ call.value = Sentinel
    /\ call.log = <<>>

LookupOps ==
    {"download_historical_data", "get_market_depth", "get_market_feed", "get_market_data"}

\* C6: on a client whose scrip_master is None, download_historical_data,
\* get_market_depth, get_market_feed and get_market_data raise a TypeError
\* before any request is sent.
C6_MissingTableTypeError ==
    (call.op \in LookupOps /\ client.scrip_master = "None") =>
       /\ call.outcome = "raised"
       /\ call.exc = "TypeError"
       /\ call.log = <<>>

\* C7: get_market_data with feed type md or mf, on a list resolving to n
\* rows, opens one connection, sends one subscription, receives n messages
\* and closes, in this order; when it returns the connection is closed; and
\* it does not return when fewer than n messages were received.
C7_FeedSession ==
    (call.op = "get_market_data" /\ call.arg \in {"md", "mf"}) =>
       LET n == Len(call.rows) IN
       /\ Len(Events(call.log, "ws_recv")) <= n
       /\ call.outcome = "returned" =>
             /\ call.log = (<<Ev("get_scrip", ""), Ev("ws_open", ""), Ev("ws_send", "")>>
                              \o [i \in 1..n |-> Ev("ws_recv", "")])
                              \o <<Ev("ws_close", "")>>
             /\ client.ws_feed = "closed"
             /\ pc = "idle"
       /\ (call.outcome = "blocked") =>
             /\ Len(Events(call.log, "ws_recv")) < n
             /\ Events(call.log, "ws_close") = <<>>
             /\ pc = "blocked"

\* a feed read of two instruments that returned
C7_Witness ==
    /\ call.op = "get_market_data"
    /\ call.arg = "mf"
    /\ call.outcome = "returned"
    /\ Len(call.rows) = 2
    /\ Len(Events(call.log, "ws_recv")) = 2
    /\ client.ws_feed = "closed"

\* C8 as stated: a download_historical_data call that fails on the request or
\* response of one instrument has saved no instrument's table.
C8_NothingSaved ==
    (call.op = "download_historical_data" /\ call.outcome = "raised"
        /\ call.exc = "KeyError") =>
       Events(call.log, "save") = <<>>

\* C8 amended: the call aborts at the instrument whose response is bad; the
\* tables of the instruments listed before it have been saved, in list order,
\* and no table of that instrument or a later one is saved by the call.
C8_AbortsAtFailure ==
    (call.op = "download_historical_data" /\ call.outcome = "raised"
        /\ call.exc = "KeyError") =>
       LET k == Len(Events(call.log, "http_get")) IN
       /\ k \in 1..Len(call.list)
       /\ EventSyms(call.log, "http_get") = Prefix(Symbols(call.list), k)
       /\ EventSyms(call.log, "save") = Prefix(Symbols(call.list), k - 1)
       /\ \A i \in 1..(k - 1) : <<call.arg, StockRef(call.list[i]).symbol>> \in files

\* a batch that failed at its second instrument after saving the first
C8_Witness ==
    /\ call.op = "download_historical_data"
    /\ call.outcome = "raised"
    /\ call.exc = "KeyError"
    /\ call.list = <<"s1", "s2">>
    /\ EventSyms(call.log, "save") = <<"RELIANCE">>
    /\ <<"1d", "RELIANCE">> \in files

\* C9: when __init__ returns, in either login mode, the session is
\* authenticated and ws_feed is a live connection; when it raises,
\* scrip_master has not been assigned.
C9_SessionAndFeed ==
    call.op = "__init__" =>
       /\ call.outcome = "returned" => (client.session /\ client.ws_feed = "open")
       /\ call.outcome = "raised" => client.scrip_master = "unset"

BrokerRequests ==
    {"http_get", "fetch_market_depth_by_symbol", "fetch_market_feed",
     "get_expiry", "get_option_chain"}

Requests(log) == SelectSeq(log, LAMBDA x : x.ev \in BrokerRequests)

\* what C10 says of download_historical_data, get_market_depth and
\* get_market_feed: one HTTP request per instrument, in list order, after the
\* whole list is resolved; one batched request for depth and for feed
RequestsPerListOp ==
    /\ call.op = "download_historical_data" =>
          /\ \E k \in 0..Len(call.list) :
                EventSyms(call.log, "http_get") = Prefix(Symbols(call.list), k)
          /\ Requests(call.log) # <<>> =>
                /\ call.log[1] = Ev("get_scrip", "")
                /\ \A i \in DOMAIN call.list : stocks[call.list[i]].scrip # NoScrip
          /\ (call.outcome = "returned" /\ call.arg \in timeList) =>
                EventSyms(call.log, "http_get") = Symbols(call.list)
    /\ call.op = "get_market_depth" =>
          /\ Len(Requests(call.log)) <= 1
          /\ call.outcome = "returned" =>
                Requests(call.log) = <<Ev("fetch_market_depth_by_symbol", "")>>
    /\ call.op = "get_market_feed" =>
          /\ Len(Requests(call.log)) <= 1
          /\ call.outcome = "returned" =>
                Requests(call.log) = <<Ev("fetch_market_feed", "")>>

\* C10 as stated: ... and a get_option_chain call that fetches and returns
\* has issued exactly one request.
C10_OneRequestPerOperation ==
    /\ RequestsPerListOp
    /\ (call.op = "get_option_chain" /\ call.outcome = "returned" /\ call.log # <<>>) =>
          Len(Requests(call.log)) = 1

\* C10 amended: ... and a get_option_chain call that fetches and returns has
\* issued two requests, the expiry list and then the option chain.
C10_RequestCounts ==
    /\ RequestsPerListOp
    /\ (call.op = "get_option_chain" /\ call.outcome = "returned" /\ call.log # <<>>) =>
          Requests(call.log) = <<Ev("get_expiry", ""), Ev("get_option_chain", "")>>

\* a download of two instruments that issued its two requests in list order
C10_Witness ==
    /\ call.op = "download_historical_data"
    /\ call.outcome = "returned"
    /\ call.list = <<"s2", "s1">>
    /\ EventSyms(call.log, "http_get") = <<"TCS", "RELIANCE">>
====
